---- MODULE Spec2Model ----
(***************************************************************************)
(* twitch_likes (src/main.rs): one spawned task consumes chat messages and *)
(* reduces them into AppState.user_data behind an Arc<Mutex<AppState>>;    *)
(* the HTTP handler handle_get_data folds user_data into Data under the    *)
(* same mutex.                                                             *)
(*                                                                         *)
(* Strings whose characters the code inspects (params[0]: starts_with,     *)
(* strip_prefix) are sequences of one-character strings; the message text, *)
(* which the code only compares whole, is a TLA+ string.  An Option is the *)
(* empty sequence (None) or a one-element sequence (Some).                 *)
(***************************************************************************)
EXTENDS Integers, Sequences, FiniteSets, TLC

\* ------------------------------------------------------------- bounds
\* Number of messages the upstream source delivers before it is closed.
MaxEvents == 3

\* ------------------------------------------------------------- inputs
\* Chat users (the prefix of an IRC message; main.rs never reads it).
Users == {"u1", "u2"}
\* Concurrent HTTP handler tasks.
Handlers == {"h1", "h2"}
\* Values of params[0]: two channel designators and one without the marker.
FirstFields == {<<"#", "a">>, <<"#", "b">>, <<"a">>}
\* Values of params[1]: the four commands and near misses.
Texts == {"!like", "!dislike", "!lurk", "!refundlike", "!Like", "!like "}
\* params of a message: zero, one or two positional fields.
ParamLists ==
    {<<>>} \cup {<<f>> : f \in FirstFields}
           \cup {<<f, t>> : f \in FirstFields, t \in Texts}
\* A message of the stream: its sender (the IRC prefix) and its params.
Messages == [sender : Users, params : ParamLists]
\* Contents of channel.txt when the file exists.
ConfiguredChannel == <<"a">>
NoFile == "NoFile"
NoMessage == "NoMessage"

VARIABLES
    main_pc,        \* position of main: "start", "running", "exited"
    channel_txt,    \* channel.txt: NoFile or its contents
    channel,        \* main's local `channel` (Some/None as a sequence)
    user_data,      \* AppState.user_data: key |-> Vec<UserState>
    mutex,          \* holder of the Mutex<AppState>: "free", "consumer", a handler
    pc,             \* position of the spawned consumer task
    message,        \* the params of the consumer's `message`, or NoMessage
    name,           \* the consumer's `name` after strip_prefix
    action,         \* the consumer's `action`
    nrecv,          \* messages received so far
    hpc,            \* position of each handler task
    data,           \* each handler's Data {like_count, lurk_count}
    committed,      \* history: user_data as the last completed apply left it
    last_applied,   \* history: <<name, action>> of the last completed apply
    key_cmd,        \* history: per key, its last Like/Dislike/RefundLike
    likers,         \* history: chat users whose latest sentiment command is !like
    expected,       \* history: the reducer folded over the messages received
    high,           \* history: longest applied prefix a finished snapshot has read
    floor           \* history: per handler, `high` when its request arrived

vars == <<main_pc, channel_txt, channel, user_data, mutex, pc, message, name,
          action, nrecv, hpc, data, committed, last_applied, key_cmd, likers,
          expected, high, floor>>

consumer_vars == <<pc, message, name, action, nrecv>>
handler_vars == <<hpc, data>>
main_vars == <<main_pc, channel_txt, channel>>
order_vars == <<high, floor>>
history_vars == <<committed, last_applied, key_cmd, likers, expected,
                  order_vars>>

\* ------------------------------------------------------------- enums
UserState == {"Like", "Dislike", "HasLurked"}
UserAction == {"Lurk", "Like", "Dislike", "RefundLike", "None"}

\* The empty HashMap.
EmptyMap == [k \in {} |-> <<>>]

\* ------------------------------------------------------------- Vec<UserState>
\* user.contains(&s)
Contains(user, s) == \E i \in 1..Len(user) : user[i] = s

\* Variant: position() taken to be the front of the vector.
Position_Front(user, s) == 1

\* user.iter().position(|x| x == &s).unwrap(): the first index holding s
\* (1-based here).
Position(user, s) ==
    CHOOSE i \in 1..Len(user) :
        user[i] = s /\ \A j \in 1..(i - 1) : user[j] # s

\* user.remove(i): the vector without its i-th element, the rest shifted left.
RemoveAt(user, i) == SubSeq(user, 1, i - 1) \o SubSeq(user, i + 1, Len(user))

\* Variant: the removal is forgotten.
RemoveIfPresent_Keep(user, s) == user

\* if user.contains(&s) { user.remove(user.iter().position(..).unwrap()); }
RemoveIfPresent(user, s) ==
    IF Contains(user, s) THEN RemoveAt(user, Position(user, s)) ELSE user

\* Variant: push without the contains() test.
PushIfAbsent_Always(user, s) == Append(user, s)

\* if !user.contains(&s) { user.push(s); }
PushIfAbsent(user, s) ==
    IF ~Contains(user, s) THEN Append(user, s) ELSE user

\* ------------------------------------------------------------- message fields
\* params.iter().nth(n): Some(params[n]) or None (n counts from 0).
Nth(params, n) == IF n < Len(params) THEN <<params[n + 1]>> ELSE <<>>

\* Variant: any non-empty first field passes for a channel designator.
StartsWithMarker_NonEmpty(n) == Len(n) >= 1

\* n.starts_with("#")
StartsWithMarker(n) == Len(n) >= 1 /\ n[1] = "#"

\* is_user_name(name: Option<&String>)
is_user_name(nm) == IF nm = <<>> THEN FALSE ELSE StartsWithMarker(nm[1])

\* n.strip_prefix("#"): Some(rest) or None.
strip_prefix(n) == IF StartsWithMarker(n) THEN <<Tail(n)>> ELSE <<>>

\* Variant: the text is matched without regard to case or trailing blanks.
ParseCommand_Loose(msg) ==
    CASE msg \in {"!like", "!Like", "!like "} -> "Like"
      [] msg = "!dislike" -> "Dislike"
      [] msg = "!lurk" -> "Lurk"
      [] msg = "!refundlike" -> "RefundLike"
      [] OTHER -> "None"

\* match msg.as_str() { "!like" => .., _ => UserAction::None }
ParseCommand(msg) ==
    CASE msg = "!like" -> "Like"
      [] msg = "!dislike" -> "Dislike"
      [] msg = "!lurk" -> "Lurk"
      [] msg = "!refundlike" -> "RefundLike"
      [] OTHER -> "None"

\* ------------------------------------------------------------- HashMap
\* Variant: a new entry starts out as having lurked.
EntryOrDefault_Lurked(map, k) ==
    IF k \in DOMAIN map THEN map ELSE (k :> <<"HasLurked">>) @@ map

\* user_data.entry(name).or_default(): the map with an empty Vec inserted
\* under name when it had none.
EntryOrDefault(map, k) ==
    IF k \in DOMAIN map THEN map ELSE (k :> <<>>) @@ map

\* The map with the Vec under k replaced (the &mut Vec returned by entry()).
SetEntry(map, k, user) == [map EXCEPT ![k] = user]

\* Every order in which user_data.iter() may visit the keys of S.
Orders(S) ==
    {o \in [1..Cardinality(S) -> S] :
        \A i, j \in 1..Cardinality(S) : i # j => o[i] # o[j]}

\* ------------------------------------------------------------- handle_get_data
ZeroData == [like_count |-> 0, lurk_count |-> 0]

\* Variant: the three tests chained with else, so one entry counts once.
Visit_ElseIf(acc, d) ==
    IF Contains(d, "Like")
    THEN [like_count |-> acc.like_count + 1, lurk_count |-> acc.lurk_count]
    ELSE IF Contains(d, "Dislike")
    THEN [like_count |-> acc.like_count - 1, lurk_count |-> acc.lurk_count]
    ELSE IF Contains(d, "HasLurked")
    THEN [like_count |-> acc.like_count, lurk_count |-> acc.lurk_count + 1]
    ELSE acc

\* The closure of for_each applied to one entry.
Visit(acc, d) ==
    LET l1 == IF Contains(d, "Like") THEN acc.like_count + 1 ELSE acc.like_count
        l2 == IF Contains(d, "Dislike") THEN l1 - 1 ELSE l1
        k1 == IF Contains(d, "HasLurked") THEN acc.lurk_count + 1
              ELSE acc.lurk_count
    IN  [like_count |-> l2, lurk_count |-> k1]

\* for_each over the entries in the order `order`, starting from acc.
RECURSIVE ForEach(_, _, _)
ForEach(map, order, acc) ==
    IF order = <<>> THEN acc
    ELSE ForEach(map, Tail(order), Visit(acc, map[Head(order)]))

\* ------------------------------------------------------------- lock
\* Variant: the lock is granted whoever holds it.
CanLock_Always(task) == TRUE

\* state.lock(): granted only while no task holds the mutex.
CanLock(task) == mutex = "free"

\* ------------------------------------------------------------- Init
NoName == <<>>

Init ==
    /\ main_pc = "start"
    /\ channel_txt \in {NoFile, ConfiguredChannel}
    /\ channel = <<>>
    /\ user_data = EmptyMap
    /\ mutex = "free"
    /\ pc = "unspawned"
    /\ message = NoMessage
    /\ name = NoName
    /\ action = "None"
    /\ nrecv = 0
    /\ hpc = [h \in Handlers |-> "idle"]
    /\ data = [h \in Handlers |-> ZeroData]
    /\ committed = EmptyMap
    /\ last_applied = <<NoName, "None">>
    /\ key_cmd = EmptyMap
    /\ likers = {}
    /\ expected = EmptyMap
    /\ high = 0
    /\ floor = [h \in Handlers |-> 0]

\* ------------------------------------------------------------- main
\* Variant: the placeholder is written but main does not return.
BootstrapConfig_NoReturn ==
    /\ main_pc = "start"
    /\ channel_txt = NoFile
    /\ channel_txt' = "<Channel Name Here (The Name in the URL)>"
    /\ channel' = <<channel_txt'>>
    /\ main_pc' = "running"
    /\ pc' = "recv"
    /\ UNCHANGED <<user_data, mutex, message, name, action, nrecv,
                   handler_vars, history_vars>>

\* channel.txt is absent: write the placeholder and return.
BootstrapConfig ==
    /\ main_pc = "start"
    /\ channel_txt = NoFile
    /\ channel_txt' = "<Channel Name Here (The Name in the URL)>"
    /\ main_pc' = "exited"
    /\ UNCHANGED <<channel, user_data, mutex, consumer_vars, handler_vars,
                   history_vars>>

\* channel.txt is present: read it, spawn the consumer, join, serve.
StartServices ==
    /\ main_pc = "start"
    /\ channel_txt # NoFile
    /\ channel' = <<channel_txt>>
    /\ main_pc' = "running"
    /\ pc' = "recv"
    /\ UNCHANGED <<channel_txt, user_data, mutex, message, name, action, nrecv,
                   handler_vars, history_vars>>

\* ------------------------------------------------------------- reference reducer
\* apply(store, user_id, action) as one sequential function on flag lists,
\* against which the consumer's locked steps are compared.
ReduceFlags(user, act) ==
    LET NotLike(x) == x # "Like"
        NotDislike(x) == x # "Dislike"
    IN  CASE act = "Lurk" ->
               IF Contains(user, "HasLurked") THEN user
               ELSE Append(user, "HasLurked")
          [] act = "Like" ->
               IF Contains(user, "Like") THEN user
               ELSE Append(SelectSeq(user, NotDislike), "Like")
          [] act = "Dislike" ->
               IF Contains(user, "Dislike") THEN user
               ELSE Append(SelectSeq(user, NotLike), "Dislike")
          [] act = "RefundLike" ->
               SelectSeq(SelectSeq(user, NotLike), NotDislike)
          [] OTHER -> user

\* The reducer on the whole map: an absent entry counts as an empty one.
Reduce(map, k, act) ==
    (k :> ReduceFlags(IF k \in DOMAIN map THEN map[k] ELSE <<>>, act)) @@ map

\* The effect one message is to have on the store: none unless it carries a
\* marked first field and one of the four command texts.
ReduceMessage(map, params) ==
    IF Len(params) < 2 THEN map
    ELSE IF Len(params[1]) = 0 \/ params[1][1] # "#" THEN map
    ELSE CASE params[2] = "!lurk" -> Reduce(map, Tail(params[1]), "Lurk")
           [] params[2] = "!like" -> Reduce(map, Tail(params[1]), "Like")
           [] params[2] = "!dislike" -> Reduce(map, Tail(params[1]), "Dislike")
           [] params[2] = "!refundlike" ->
                  Reduce(map, Tail(params[1]), "RefundLike")
           [] OTHER -> map

\* ------------------------------------------------------------- consumer task
\* The chat users whose latest sentiment command, among the messages that
\* carry a channel designator and a text, is !like.
NoteSentiment(m) ==
    IF Len(m.params) < 2 \/ ~StartsWithMarker(m.params[1]) THEN likers
    ELSE CASE m.params[2] = "!like" -> likers \cup {m.sender}
           [] m.params[2] \in {"!dislike", "!refundlike"} -> likers \ {m.sender}
           [] OTHER -> likers

\* incoming_messages.recv() yields Some(m).
Recv(m) ==
    /\ pc = "recv"
    /\ nrecv < MaxEvents
    /\ nrecv' = nrecv + 1
    /\ message' = m.params
    /\ pc' = "body"
    /\ likers' = NoteSentiment(m)
    /\ expected' = ReduceMessage(expected, m.params)
    /\ UNCHANGED <<main_vars, user_data, mutex, name, action, handler_vars,
                   committed, last_applied, key_cmd, order_vars>>

\* The loop body up to the match: filter on the two fields, strip the marker,
\* parse the text.  A dropped message and UserAction::None end the iteration
\* without locking.
Dispatch ==
    /\ pc = "body"
    /\ LET nm == Nth(message, 0)
           msg == Nth(message, 1)
       IN  IF ~is_user_name(nm) \/ msg = <<>>
           THEN /\ pc' = "recv"
                /\ message' = NoMessage
                /\ UNCHANGED <<name, action>>
           ELSE LET act == ParseCommand(msg[1])
                IN  /\ IF act = "None"
                       THEN /\ pc' = "recv"
                            /\ message' = NoMessage
                            /\ UNCHANGED <<name, action>>
                       ELSE /\ pc' = "lock"
                            /\ name' = strip_prefix(nm[1])[1]
                            /\ action' = act
                            /\ UNCHANGED message
    /\ UNCHANGED <<main_vars, user_data, mutex, nrecv, handler_vars,
                   history_vars>>

\* Variant: None from recv() is ignored and the task goes on polling.
RecvClosed_Retry ==
    /\ pc = "recv"
    /\ pc' = "recv"
    /\ UNCHANGED <<main_vars, user_data, mutex, message, name, action, nrecv,
                   handler_vars, history_vars>>

\* incoming_messages.recv() yields None: the while-let loop ends.
RecvClosed ==
    /\ pc = "recv"
    /\ pc' = "ended"
    /\ UNCHANGED <<main_vars, user_data, mutex, message, name, action, nrecv,
                   handler_vars, history_vars>>

\* let mut local_state = state.lock().unwrap();
Lock ==
    /\ pc = "lock"
    /\ CanLock("consumer")
    /\ mutex' = "consumer"
    /\ pc' = "entry"
    /\ UNCHANGED <<main_vars, user_data, message, name, action, nrecv,
                   handler_vars, history_vars>>

\* let user = local_state.user_data.entry(name.clone()).or_default();
Entry ==
    /\ pc = "entry"
    /\ user_data' = EntryOrDefault(user_data, name)
    /\ pc' = "first"
    /\ UNCHANGED <<main_vars, mutex, message, name, action, nrecv,
                   handler_vars, history_vars>>

\* Variant: the message is consumed but HasLurked is not recorded.
LurkPush_Lost ==
    /\ pc = "first"
    /\ action = "Lurk"
    /\ pc' = "unlock"
    /\ UNCHANGED <<main_vars, user_data, mutex, message, name, action, nrecv,
                   handler_vars, history_vars>>

\* UserAction::Lurk: push HasLurked unless present.
LurkPush ==
    /\ pc = "first"
    /\ action = "Lurk"
    /\ user_data' = SetEntry(user_data, name,
                             PushIfAbsent(user_data[name], "HasLurked"))
    /\ pc' = "unlock"
    /\ UNCHANGED <<main_vars, mutex, message, name, action, nrecv,
                   handler_vars, history_vars>>

\* Variant: the opposite flag is left in place.
SentimentCheck_NoRemove(own, other) ==
    /\ pc = "first"
    /\ action = own
    /\ pc' = IF Contains(user_data[name], own) THEN "unlock" ELSE "second"
    /\ UNCHANGED <<main_vars, user_data, mutex, message, name, action, nrecv,
                   handler_vars, history_vars>>

\* Variant: no early `continue`; the flag is pushed again.
SentimentCheck_NoContinue(own, other) ==
    /\ pc = "first"
    /\ action = own
    /\ user_data' = SetEntry(user_data, name,
                             RemoveIfPresent(user_data[name], other))
    /\ pc' = "second"
    /\ UNCHANGED <<main_vars, mutex, message, name, action, nrecv,
                   handler_vars, history_vars>>

\* UserAction::Like / Dislike, first half: `continue` when `own` is present,
\* otherwise remove `other` if present.
SentimentCheck(own, other) ==
    /\ pc = "first"
    /\ action = own
    /\ IF Contains(user_data[name], own)
       THEN /\ pc' = "unlock"
            /\ UNCHANGED user_data
       ELSE /\ user_data' = SetEntry(user_data, name,
                                     RemoveIfPresent(user_data[name], other))
            /\ pc' = "second"
    /\ UNCHANGED <<main_vars, mutex, message, name, action, nrecv,
                   handler_vars, history_vars>>

\* UserAction::Like / Dislike, second half: user.push(own).
SentimentPush(own) ==
    /\ pc = "second"
    /\ action = own
    /\ user_data' = SetEntry(user_data, name, Append(user_data[name], own))
    /\ pc' = "unlock"
    /\ UNCHANGED <<main_vars, mutex, message, name, action, nrecv,
                   handler_vars, history_vars>>

LikeCheck == SentimentCheck("Like", "Dislike")
LikePush == SentimentPush("Like")
DislikeCheck == SentimentCheck("Dislike", "Like")
DislikePush == SentimentPush("Dislike")

\* UserAction::RefundLike, first if: remove Like if present.
RefundRemoveLike ==
    /\ pc = "first"
    /\ action = "RefundLike"
    /\ user_data' = SetEntry(user_data, name,
                             RemoveIfPresent(user_data[name], "Like"))
    /\ pc' = "second"
    /\ UNCHANGED <<main_vars, mutex, message, name, action, nrecv,
                   handler_vars, history_vars>>

\* Variant: RefundLike gives back a Like only.
RefundRemoveDislike_Skip ==
    /\ pc = "second"
    /\ action = "RefundLike"
    /\ pc' = "unlock"
    /\ UNCHANGED <<main_vars, user_data, mutex, message, name, action, nrecv,
                   handler_vars, history_vars>>

\* UserAction::RefundLike, second if: remove Dislike if present.
RefundRemoveDislike ==
    /\ pc = "second"
    /\ action = "RefundLike"
    /\ user_data' = SetEntry(user_data, name,
                             RemoveIfPresent(user_data[name], "Dislike"))
    /\ pc' = "unlock"
    /\ UNCHANGED <<main_vars, mutex, message, name, action, nrecv,
                   handler_vars, history_vars>>

\* Variant: the loop returns to recv() with the guard still alive.
Unlock_Leak ==
    /\ pc = "unlock"
    /\ pc' = "recv"
    /\ committed' = user_data
    /\ last_applied' = <<name, action>>
    /\ key_cmd' = IF action \in {"Like", "Dislike", "RefundLike"}
                  THEN (name :> action) @@ key_cmd
                  ELSE key_cmd
    /\ name' = NoName
    /\ action' = "None"
    /\ message' = NoMessage
    /\ UNCHANGED <<main_vars, user_data, mutex, nrecv, handler_vars, likers,
                   expected, order_vars>>

\* local_state goes out of scope (end of the arm, or `continue`): the guard is
\* dropped and the loop returns to recv().
Unlock ==
    /\ pc = "unlock"
    /\ mutex' = "free"
    /\ pc' = "recv"
    /\ committed' = user_data
    /\ last_applied' = <<name, action>>
    /\ key_cmd' = IF action \in {"Like", "Dislike", "RefundLike"}
                  THEN (name :> action) @@ key_cmd
                  ELSE key_cmd
    /\ name' = NoName
    /\ action' = "None"
    /\ message' = NoMessage
    /\ UNCHANGED <<main_vars, user_data, nrecv, handler_vars, likers, expected,
                   order_vars>>

\* ------------------------------------------------------------- HTTP handlers
\* GET /data arrives: like_count = 0, lurk_count = 0.
Request(h) ==
    /\ main_pc = "running"
    /\ hpc[h] = "idle"
    /\ hpc' = [hpc EXCEPT ![h] = "lock"]
    /\ data' = [data EXCEPT ![h] = ZeroData]
    /\ UNCHANGED <<main_vars, user_data, mutex, consumer_vars, history_vars>>

\* Variant: the handler goes on without waiting for the mutex.
HLock_NoWait(h) ==
    /\ hpc[h] = "lock"
    /\ mutex' = h
    /\ hpc' = [hpc EXCEPT ![h] = "iter"]
    /\ UNCHANGED <<main_vars, user_data, consumer_vars, data, history_vars>>

\* state.lock().unwrap()
HLock(h) ==
    /\ hpc[h] = "lock"
    /\ CanLock(h)
    /\ mutex' = h
    /\ hpc' = [hpc EXCEPT ![h] = "iter"]
    /\ UNCHANGED <<main_vars, user_data, consumer_vars, data, history_vars>>

\* Variant: the entries are drained while they are counted.
HIterate_Drain(h) ==
    /\ hpc[h] = "iter"
    /\ \E order \in Orders(DOMAIN user_data) :
           data' = [data EXCEPT ![h] = ForEach(user_data, order, data[h])]
    /\ user_data' = EmptyMap
    /\ mutex' = "free"
    /\ hpc' = [hpc EXCEPT ![h] = "done"]
    /\ UNCHANGED <<main_vars, consumer_vars, history_vars>>

\* Variant: the guard outlives the statement.
HIterate_Hold(h) ==
    /\ hpc[h] = "iter"
    /\ \E order \in Orders(DOMAIN user_data) :
           data' = [data EXCEPT ![h] = ForEach(user_data, order, data[h])]
    /\ hpc' = [hpc EXCEPT ![h] = "done"]
    /\ UNCHANGED <<main_vars, user_data, mutex, consumer_vars, history_vars>>

\* .user_data.iter().for_each(..) in some iteration order; the temporary guard
\* is dropped at the end of the statement.
HIterate(h) ==
    /\ hpc[h] = "iter"
    /\ \E order \in Orders(DOMAIN user_data) :
           data' = [data EXCEPT ![h] = ForEach(user_data, order, data[h])]
    /\ mutex' = "free"
    /\ hpc' = [hpc EXCEPT ![h] = "done"]
    /\ UNCHANGED <<main_vars, user_data, consumer_vars, history_vars>>

\* Json::from(data) is returned; the task ends.
Respond(h) ==
    /\ hpc[h] = "done"
    /\ hpc' = [hpc EXCEPT ![h] = "idle"]
    /\ data' = [data EXCEPT ![h] = ZeroData]
    /\ UNCHANGED <<main_vars, user_data, mutex, consumer_vars, history_vars>>

\* ------------------------------------------------------------- snapshot order
\* The number of received messages whose iteration of the loop is over: the
\* prefix of the stream the store reflects while no apply is under way.
Applied ==
    IF pc \in {"body", "lock", "entry", "first", "second", "unlock"}
    THEN nrecv - 1
    ELSE nrecv

\* Request(h), noting the longest prefix read by the snapshots finished so far.
RequestNoted(h) ==
    /\ main_pc = "running"
    /\ hpc[h] = "idle"
    /\ hpc' = [hpc EXCEPT ![h] = "lock"]
    /\ data' = [data EXCEPT ![h] = ZeroData]
    /\ floor' = [floor EXCEPT ![h] = high]
    /\ UNCHANGED <<main_vars, user_data, mutex, consumer_vars, committed,
                   last_applied, key_cmd, likers, expected, high>>

\* HIterate(h), noting the prefix this snapshot has read.
HIterateNoted(h) ==
    /\ hpc[h] = "iter"
    /\ \E order \in Orders(DOMAIN user_data) :
           data' = [data EXCEPT ![h] = ForEach(user_data, order, data[h])]
    /\ mutex' = "free"
    /\ hpc' = [hpc EXCEPT ![h] = "done"]
    /\ high' = IF Applied > high THEN Applied ELSE high
    /\ floor' = [floor EXCEPT ![h] = 0]
    /\ UNCHANGED <<main_vars, user_data, consumer_vars, committed,
                   last_applied, key_cmd, likers, expected>>

\* ------------------------------------------------------------- specification
Next ==
    \/ BootstrapConfig
    \/ StartServices
    \/ \E m \in Messages : Recv(m)
    \/ Dispatch
    \/ RecvClosed
    \/ Lock
    \/ Entry
    \/ LurkPush
    \/ LikeCheck
    \/ LikePush
    \/ DislikeCheck
    \/ DislikePush
    \/ RefundRemoveLike
    \/ RefundRemoveDislike
    \/ Unlock
    \/ \E h \in Handlers : Request(h)
    \/ \E h \in Handlers : HLock(h)
    \/ \E h \in Handlers : HIterate(h)
    \/ \E h \in Handlers : Respond(h)

Spec == Init /\ [][Next]_vars

\* The consumer's steps that wait for nothing: the body, and the arm under
\* the lock up to the drop of the guard.
ConsumerRuns ==
    \/ Dispatch
    \/ Entry
    \/ LurkPush
    \/ LikeCheck
    \/ LikePush
    \/ DislikeCheck
    \/ DislikePush
    \/ RefundRemoveLike
    \/ RefundRemoveDislike
    \/ Unlock

\* The messages of the fair specification: one sender; every command, a
\* second channel, an unrecognized text and two malformed messages.
LiveMessages ==
    {m \in Messages :
        /\ m.sender = "u1"
        /\ m.params \in {<<>>,
                          << <<"a">>, "!like" >>,
                          << <<"#", "a">>, "!like" >>,
                          << <<"#", "a">>, "!dislike" >>,
                          << <<"#", "a">>, "!lurk" >>,
                          << <<"#", "a">>, "!refundlike" >>,
                          << <<"#", "a">>, "!Like" >>,
                          << <<"#", "b">>, "!like" >>}}

\* recv() returns: the next message, or None once the source is closed.
RecvReturns == RecvClosed \/ \E m \in LiveMessages : Recv(m)

\* Next with the messages drawn from LiveMessages.
FairNext ==
    \/ BootstrapConfig
    \/ StartServices
    \/ RecvReturns
    \/ ConsumerRuns
    \/ Lock
    \/ \E h \in Handlers : Request(h)
    \/ \E h \in Handlers : HLock(h)
    \/ \E h \in Handlers : HIterate(h)
    \/ \E h \in Handlers : Respond(h)

\* Fair scheduling: a task that can run keeps running; the finite source
\* delivers or closes; a task waiting in lock() gets the mutex if it is free
\* again and again.  Requests arrive or not.
Fairness ==
    /\ WF_vars(ConsumerRuns)
    /\ WF_vars(RecvReturns)
    /\ SF_vars(Lock)
    /\ \A h \in Handlers :
           /\ SF_vars(HLock(h))
           /\ WF_vars(HIterate(h))
           /\ WF_vars(Respond(h))

FairSpec == Init /\ [][FairNext]_vars /\ Fairness

\* Next with the messages drawn from LiveMessages and the snapshots noted.
OrderNext ==
    \/ BootstrapConfig
    \/ StartServices
    \/ RecvReturns
    \/ ConsumerRuns
    \/ Lock
    \/ \E h \in Handlers : RequestNoted(h)
    \/ \E h \in Handlers : HLock(h)
    \/ \E h \in Handlers : HIterateNoted(h)
    \/ \E h \in Handlers : Respond(h)

OrderSpec == Init /\ [][OrderNext]_vars

\* ------------------------------------------------------------- properties
\* The flags held under key k (none when the key has no entry).
Has(map, k, s) == k \in DOMAIN map /\ Contains(map[k], s)

\* likers minus dislikers and lurkers, counted as sets of keys.
CountData(map) ==
    [like_count |-> Cardinality({k \in DOMAIN map : Contains(map[k], "Like")})
                    - Cardinality({k \in DOMAIN map : Contains(map[k], "Dislike")}),
     lurk_count |-> Cardinality({k \in DOMAIN map : Contains(map[k], "HasLurked")})]

\* The consumer is between lock() and the drop of the guard.
Applying == pc \in {"entry", "first", "second", "unlock"}

\* C1: in every reachable state, no entry of user_data holds both Like and
\* Dislike (the states in the middle of an apply included).
C1_MutualExclusion ==
    \A k \in DOMAIN user_data :
        ~(Contains(user_data[k], "Like") /\ Contains(user_data[k], "Dislike"))

\* A Like has just been applied to an entry that held Dislike.
C1_Witness ==
    /\ pc = "unlock"
    /\ action = "Like"
    /\ Has(committed, name, "Dislike")
    /\ Has(user_data, name, "Like")

\* C2: every snapshot iteration runs on the store exactly as the last completed
\* apply left it (a prefix of the applied sequence), never on the store in the
\* middle of an apply, and the Data it returns is the aggregate of that store.
C2_AtomicSnapshot ==
    [][\A h \in Handlers :
          (hpc[h] = "iter" /\ hpc'[h] = "done")
              => (user_data = committed /\ data'[h] = CountData(committed))]_vars

\* One snapshot answered like_count = -1 after a Dislike; the consumer is in
\* the middle of the following Like (Dislike removed, Like not yet pushed)
\* while the other handler waits for the lock.
C2_Witness ==
    \E h1, h2 \in Handlers :
        /\ hpc[h1] = "done"
        /\ data[h1].like_count = -1
        /\ hpc[h2] = "lock"
        /\ mutex = "consumer"
        /\ pc = "second"
        /\ action = "Like"
        /\ user_data # committed

\* C5: a step never removes HasLurked from an entry that holds it, nor the
\* entry itself.
C5_HasLurkedMonotonic ==
    [][\A k \in DOMAIN user_data :
          Contains(user_data[k], "HasLurked") => Has(user_data', k, "HasLurked")]_vars

\* A RefundLike has just been applied to an entry that held HasLurked in front
\* of Like.
C5_Witness ==
    /\ pc = "unlock"
    /\ action = "RefundLike"
    /\ name \in DOMAIN committed
    /\ committed[name] = <<"HasLurked", "Like">>
    /\ user_data[name] = <<"HasLurked">>

\* C6: the Data a snapshot iteration produces has like_count = (entries with
\* Like) - (entries with Dislike) and lurk_count = (entries with HasLurked),
\* whatever order the entries are visited in; {0, 0} for the empty store.
C6_SnapshotResult ==
    [][\A h \in Handlers :
          (hpc[h] = "iter" /\ hpc'[h] = "done")
              => /\ data'[h] = CountData(user_data)
                 /\ (user_data = EmptyMap => data'[h] = ZeroData)]_vars

\* A snapshot of a store with two entries, one liked and lurked, one disliked.
C6_Witness ==
    \E h \in Handlers :
        /\ hpc[h] = "done"
        /\ data[h] = [like_count |-> 0, lurk_count |-> 1]
        /\ Cardinality(DOMAIN user_data) = 2
        /\ \E k \in DOMAIN user_data : Contains(user_data[k], "Dislike")
        /\ \E k \in DOMAIN user_data :
               Contains(user_data[k], "Like") /\ Contains(user_data[k], "HasLurked")

\* C3: the store keeps one entry per chat user: when no apply is in flight and
\* the latest sentiment command of every one of the two chat users is !like,
\* a snapshot of the store counts two likers.
C3_PerUserState ==
    (~Applying /\ pc # "lock" /\ pc # "body" /\ likers = Users)
        => CountData(user_data).like_count = Cardinality(Users)

\* C4: the consumer only processes messages of the configured channel: it never
\* goes on to lock the store for another channel's message, and the store never
\* holds an entry under another key than the configured channel.
C4_ChannelFilter ==
    /\ (pc = "lock" \/ Applying) => <<name>> = channel
    /\ \A k \in DOMAIN user_data : <<k>> = channel

\* The contribution of key k to like_count.
Contribution(map, k) ==
    IF k \in DOMAIN map THEN Visit(ZeroData, map[k]).like_count ELSE 0

\* +1, -1 or 0 after the key's latest command among Like, Dislike, RefundLike.
LastWins(k) ==
    IF k \notin DOMAIN key_cmd THEN 0
    ELSE CASE key_cmd[k] = "Like" -> 1
           [] key_cmd[k] = "Dislike" -> -1
           [] OTHER -> 0

\* C7: whenever no apply is in progress, every key contributes to like_count
\* what its most recent command among Like, Dislike and RefundLike says (+1,
\* -1, 0; 0 when it never had one), and like_count is the sum of these.
C7_LastSentimentWins ==
    ~Applying =>
        /\ \A k \in DOMAIN user_data \cup DOMAIN key_cmd :
               Contribution(user_data, k) = LastWins(k)
        /\ CountData(user_data).like_count
               = Cardinality({k \in DOMAIN key_cmd : key_cmd[k] = "Like"})
                 - Cardinality({k \in DOMAIN key_cmd : key_cmd[k] = "Dislike"})

\* Three commands to one key, the last one a RefundLike that took a sentiment
\* flag away: the key is back to contributing 0.
C7_Witness ==
    \E k \in DOMAIN key_cmd :
        /\ pc = "recv"
        /\ nrecv = 3
        /\ DOMAIN user_data = {k}
        /\ key_cmd[k] = "RefundLike"
        /\ last_applied = <<k, "RefundLike">>
        /\ user_data[k] = <<>>

\* C8: when a RefundLike has run to the end of its arm, the entry holds
\* neither Like nor Dislike, and holds HasLurked exactly when it did before.
C8_RefundLikePost ==
    (pc = "unlock" /\ action = "RefundLike")
        => /\ ~Has(user_data, name, "Like")
           /\ ~Has(user_data, name, "Dislike")
           /\ (Has(user_data, name, "HasLurked")
                   <=> Has(committed, name, "HasLurked"))

\* A RefundLike has run on an entry that held Dislike and HasLurked.
C8_Witness ==
    /\ pc = "unlock"
    /\ action = "RefundLike"
    /\ Has(committed, name, "Dislike")
    /\ Has(committed, name, "HasLurked")
    /\ user_data[name] = <<"HasLurked">>

\* C9: when Like, Dislike or Lurk has run to the end of its arm for the same
\* key and with the same action as the apply completed just before it, the
\* store is exactly as that first apply left it.
C9_Idempotent ==
    (pc = "unlock" /\ action \in {"Like", "Dislike", "Lurk"}
                   /\ last_applied = <<name, action>>)
        => user_data = committed

\* The second of two Lurks in a row has run; the entry also holds a flag.
C9_Witness ==
    /\ pc = "unlock"
    /\ action = "Lurk"
    /\ last_applied = <<name, "Lurk">>
    /\ Len(user_data[name]) = 2

\* The four command literals.
CommandTexts == {"!like", "!dislike", "!lurk", "!refundlike"}

\* C10: the loop body run on a message whose text is none of the four
\* literals ends the iteration at once: the consumer is back at recv() without
\* having locked, and user_data is unchanged (no entry created).
C10_UnrecognizedNoOp ==
    [][(pc = "body" /\ pc' # "body" /\ Len(message) = 2
            /\ message[2] \notin CommandTexts)
          => (pc' = "recv" /\ user_data' = user_data /\ mutex' = mutex)]_vars

\* The body is about to run on "!Like" sent to a channel whose key has no
\* entry, while another key has one.
C10_Witness ==
    /\ pc = "body"
    /\ message = << <<"#", "b">>, "!Like" >>
    /\ DOMAIN user_data = {<<"a">>}

\* The message lacks its first field, or the field lacks the marker, or the
\* second field is absent.
Malformed(params) ==
    \/ Len(params) = 0
    \/ Len(params[1]) = 0
    \/ params[1][1] # "#"
    \/ Len(params) < 2

\* C11: the loop body run on a malformed message ends the iteration at once:
\* the consumer is back at recv() for the next message, having neither locked
\* nor changed user_data.
C11_MalformedDropped ==
    [][(pc = "body" /\ pc' # "body" /\ Malformed(message))
          => (pc' = "recv" /\ user_data' = user_data /\ mutex' = mutex)]_vars

\* The body is about to run on a first field without the marker carrying a
\* valid command, with one message still to come and a non-empty store.
C11_Witness ==
    /\ pc = "body"
    /\ message = << <<"a">>, "!like" >>
    /\ nrecv = 2
    /\ user_data # EmptyMap

\* C12: when channel.txt was absent (it holds no channel name but NoFile or
\* the placeholder text), main has written the placeholder and returned; the consumer was never spawned, no handler ever runs, and the
\* store is as constructed, the lock never taken.
C12_MissingConfig ==
    (main_pc # "start"
        /\ (channel_txt = NoFile
               \/ channel_txt = "<Channel Name Here (The Name in the URL)>"))
        => /\ main_pc = "exited"
           /\ channel_txt = "<Channel Name Here (The Name in the URL)>"
           /\ pc = "unspawned"
           /\ \A h \in Handlers : hpc[h] = "idle"
           /\ user_data = EmptyMap
           /\ mutex = "free"
           /\ nrecv = 0

\* main has returned after writing the placeholder.
C12_Witness ==
    /\ main_pc = "exited"
    /\ channel_txt = "<Channel Name Here (The Name in the URL)>"
    /\ pc = "unspawned"

\* C14: the consumer holds the lock exactly from lock() to the drop of the
\* guard at the end of the arm or at `continue`: never while it waits in
\* recv(), runs the body before the match, waits for the lock, or has ended.
\* A handler holds it exactly during its iteration: not before, and no longer
\* once its Data is complete and the response is produced.
C14_LockDiscipline ==
    /\ Applying <=> mutex = "consumer"
    /\ \A h \in Handlers : hpc[h] = "iter" <=> mutex = h

\* A repeated Like has taken the `continue` (the store is as before); the
\* guard is about to be dropped while a handler waits for the lock.
C14_Witness ==
    \E h \in Handlers :
        /\ pc = "unlock"
        /\ action = "Like"
        /\ Has(committed, name, "Like")
        /\ user_data = committed
        /\ mutex = "consumer"
        /\ hpc[h] = "lock"

\* C17: every entry holds each of Like, Dislike and HasLurked at most once,
\* so at most two flags in all (Like and Dislike exclude each other).
C17_NoDuplicateFlags ==
    \A k \in DOMAIN user_data :
        /\ \A i, j \in 1..Len(user_data[k]) :
               i # j => user_data[k][i] # user_data[k][j]
        /\ Len(user_data[k]) <= 2

\* The third of three Lurks in a row to one key has run: one HasLurked.
C17_Witness ==
    /\ pc = "unlock"
    /\ action = "Lurk"
    /\ nrecv = 3
    /\ last_applied = <<name, "Lurk">>
    /\ user_data = (name :> <<"HasLurked">>)
    /\ committed = user_data

\* C18: a step of a handler (its position changes) leaves user_data as it is:
\* no entry changed, created or removed.
C18_SnapshotReadOnly ==
    [][(\E h \in Handlers : hpc'[h] # hpc[h]) => user_data' = user_data]_vars

\* A handler has produced its Data from a store of two entries, which are
\* still there.
C18_Witness ==
    \E h \in Handlers :
        /\ hpc[h] = "done"
        /\ Cardinality(DOMAIN user_data) = 2
        /\ data[h] = [like_count |-> 2, lurk_count |-> 0]

\* C13: whenever the consumer is between messages (in recv(), or ended), the
\* store equals the reference reducer folded, in arrival order, over all the
\* messages received so far.
C13_ArrivalOrder ==
    pc \in {"recv", "ended"} => user_data = expected

\* Three messages have been processed, the last two to the same key with
\* different effects, and the store holds two entries.
C13_Witness ==
    /\ pc = "recv"
    /\ nrecv = 3
    /\ user_data = (<<"a">> :> <<"HasLurked", "Dislike">>) @@ (<<"b">> :> <<"Like">>)
    /\ last_applied = <<<<"a">>, "Dislike">>
    /\ user_data = expected

\* The map without its entries whose flag list is empty.
NonEmptyEntries(map) ==
    [k \in {x \in DOMAIN map : map[x] # <<>>} |-> map[k]]

\* C19: an arm that has run on a key that had no entry, or an empty one,
\* leaves under that key what the reducer makes of the empty flag list (for
\* RefundLike an empty entry) and the rest of the store as it was; and a
\* snapshot of the store returns the same Data with and without the entries
\* whose flag list is empty.
C19_AbsentIsEmpty ==
    /\ (pc = "unlock" /\ (name \notin DOMAIN committed \/ committed[name] = <<>>))
          => user_data = (name :> ReduceFlags(<<>>, action)) @@ committed
    /\ \A o1 \in Orders(DOMAIN user_data) :
          \A o2 \in Orders(DOMAIN NonEmptyEntries(user_data)) :
              ForEach(user_data, o1, ZeroData)
                  = ForEach(NonEmptyEntries(user_data), o2, ZeroData)

\* A RefundLike has run on a key without entry, next to an entry holding a
\* flag: the store has one empty and one non-empty entry.
C19_Witness ==
    /\ pc = "unlock"
    /\ action = "RefundLike"
    /\ name \notin DOMAIN committed
    /\ committed # EmptyMap
    /\ user_data[name] = <<>>
    /\ \E k \in DOMAIN committed : committed[k] # <<>>

\* The step the holder of the lock takes next.
HolderCanRun ==
    \/ mutex = "consumer" /\ ENABLED ConsumerRuns
    \/ \E h \in Handlers : mutex = h /\ ENABLED HIterate(h)

\* C15: whenever the lock is held its holder has a step to take, so the tasks
\* are never all blocked on it; no task waits for the lock while holding it;
\* and under fair scheduling an apply that has reached lock() gets the lock,
\* runs to the drop of the guard and is back in recv(), and a snapshot that
\* has reached lock() gets it, iterates, and has released it with its Data
\* complete.
C15_NoDeadlock ==
    /\ [](mutex # "free" => HolderCanRun)
    /\ [](pc = "lock" => mutex # "consumer")
    /\ [](\A h \in Handlers : hpc[h] = "lock" => mutex # h)
    /\ (pc = "lock") ~> (pc = "recv" /\ mutex # "consumer")
    /\ \A h \in Handlers : (hpc[h] = "lock") ~> (hpc[h] = "done" /\ mutex # h)

\* The consumer and one handler wait in lock() while the other handler holds
\* the mutex.
C15_Witness ==
    \E h1, h2 \in Handlers :
        /\ pc = "lock"
        /\ hpc[h1] = "lock"
        /\ hpc[h2] = "iter"
        /\ mutex = h2

\* C16: for a finite stream under fair scheduling, a message that recv() has
\* delivered is consumed (the loop is back at recv() or has ended with no
\* message in hand); the loop ends once the source is exhausted or closed,
\* and then every delivered message has had its effect on the store; an ended
\* loop is never restarted and the store no longer changes; and a request
\* that arrives after the end is still accepted and answered with the counts
\* of the final store.
C16_DrainsAndStops ==
    /\ (pc = "body") ~> (pc \in {"recv", "ended"} /\ message = NoMessage)
    /\ (main_pc = "running") ~> (pc = "ended")
    /\ [](pc = "ended" => /\ user_data = expected
                          /\ message = NoMessage
                          /\ mutex # "consumer")
    /\ [][pc = "ended" => (pc' = "ended" /\ user_data' = user_data)]_vars
    /\ [](\A h \in Handlers :
              pc = "ended" /\ hpc[h] = "idle" => ENABLED Request(h))
    /\ \A h \in Handlers :
           (pc = "ended" /\ hpc[h] = "lock")
               ~> (hpc[h] = "done" /\ data[h] = CountData(expected))

\* The loop has ended after the last message of the stream, the store holds
\* an entry, one handler is counting it and the other waits for the lock.
C16_Witness ==
    \E h1, h2 \in Handlers :
        /\ pc = "ended"
        /\ nrecv = MaxEvents
        /\ user_data # EmptyMap
        /\ hpc[h1] = "iter"
        /\ hpc[h2] = "lock"

\* C20: a snapshot reads the store under the lock, with no apply under way,
\* as the applied prefix left it, and that prefix is at least as long as the
\* one read by any snapshot that had finished when this one's request
\* arrived; the store changes only in steps of the lock's holder; the applied
\* prefix never shrinks, and no snapshot has read more than has been applied.
C20_SnapshotOrder ==
    /\ [][\A h \in Handlers :
            (hpc[h] = "iter" /\ hpc'[h] = "done")
                => /\ mutex = h
                   /\ ~Applying
                   /\ user_data = committed
                   /\ floor[h] <= Applied
                   /\ high' >= Applied]_vars
    /\ [][user_data' # user_data => (mutex = "consumer" /\ mutex' = "consumer")]_vars
    /\ [][Applied' >= Applied /\ high' >= high]_vars
    /\ [](high <= Applied)

\* A snapshot that had read the store after one message was finished when
\* this handler's request arrived; the handler now holds the lock over the
\* store after two messages while the consumer waits in lock() with the third.
C20_Witness ==
    \E h \in Handlers :
        /\ hpc[h] = "iter"
        /\ mutex = h
        /\ floor[h] = 1
        /\ Applied = 2
        /\ user_data # EmptyMap
        /\ pc = "lock"

====
